---- MODULE Spec2Model ----
(***************************************************************************)
(* Cache-aside product API of main.go: GET /product/{id} (read path with   *)
(* hit counting and TTL refresh), PUT /product/{id} (store update followed *)
(* by cache invalidation) and the background cache cleaner.                *)
(*                                                                         *)
(* The Redis server is an external service.  It is modelled by what its    *)
(* commands do to a keyspace: a finite map from keys to a value and a      *)
(* remaining time to live.  Time is discrete; one Tick is one unit of the  *)
(* clock and redisProductTTL is TTLTicks units long.  As in Redis, a key   *)
(* is expired once the clock is strictly past its expiry instant, so a key *)
(* whose remaining time is 0 is still readable and reports TTL 0.          *)
(***************************************************************************)
EXTENDS Integers, Sequences, FiniteSets, TLC

\* ------------------------------------------------------------------ bounds
TTLTicks == 3      \* length of the TTL window in clock ticks
MaxHits  == 3      \* the hit counter is not incremented past this value
ScanPage == 2      \* key slots covered by one SCAN call

\* ------------------------------------------------------- program constants
redisProductKeyPrefix == "product:"
redisProductTTL       == TTLTicks
popularThreshold      == 2
scanCount             == ScanPage

\* the measured ages stop counting here
MaxAge == TTLTicks + 2

\* TTL replies of the server for a key without expiry / a missing key
NoExpiry == -1
NoKey    == -2

Product(i, n, pr) == [ID |-> i, Name |-> n, Price |-> pr]
\* the zero value of a Go Product (var product Product / var input Product)
ZeroProduct == Product(0, "", 0)

\* the request tasks that run concurrently
Procs == {1, 2}

\* identifiers the modelled requests name in their path: 1 is in the initial
\* store, 4 is not
ReqIds == {1, 4}
\* request bodies of PUT; the last one never matches a path of ReqIds
Inputs == { Product(1, "Apple", 120), Product(1, "Apple", 100),
            Product(2, "Banana", 55) }

\* ------------------------------------------------------------ key naming
redisProductKey(id)     == <<redisProductKeyPrefix, id>>
redisProductHitsKey(id) == <<redisProductKeyPrefix, id, ":hits">>
\* a key of another application sharing the server
ForeignKey == <<"session:", 1>>

\* the pattern product:* of the cleaner's SCAN
MatchesPattern(key) == key[1] = redisProductKeyPrefix

\* the slots of the keyspace in the order SCAN walks them
KeySeq == << redisProductKey(1), redisProductHitsKey(1), ForeignKey,
             redisProductKey(4), redisProductHitsKey(4) >>

\* ---------------------------------------------------------- serialization
\* json.Marshal(product): the three fields in declaration order
Marshal(p) == <<"json", p.ID, p.Name, p.Price>>
\* a value that is not the JSON of a Product
Garbage == <<"not-json">>
CanUnmarshal(data) == Len(data) = 4 /\ data[1] = "json"
Unmarshal(data) == Product(data[2], data[3], data[4])

\* ------------------------------------------------------------ Redis server
RedisHas(c, k) == k \in DOMAIN c
RedisSet(c, k, v, ttl) ==
    [x \in DOMAIN c \cup {k} |-> IF x = k THEN [val |-> v, ttl |-> ttl] ELSE c[x]]
RedisDel(c, k) == [x \in DOMAIN c \ {k} |-> c[x]]
\* INCR keeps the expiry of an existing key and creates a missing key at 1
\* without an expiry
RedisIncr(c, k) ==
    IF RedisHas(c, k) THEN [c EXCEPT ![k].val = @ + 1]
                      ELSE RedisSet(c, k, 1, NoExpiry)
\* EXPIRE is a no-op on a missing key
RedisExpire(c, k, ttl) ==
    IF RedisHas(c, k) THEN [c EXCEPT ![k].ttl = ttl] ELSE c
RedisTTL(c, k) == IF RedisHas(c, k) THEN c[k].ttl ELSE NoKey
\* one unit of time passes on the server
RedisTick(c) ==
    [x \in {k \in DOMAIN c : c[k].ttl # 0} |->
        IF c[x].ttl > 0 THEN [c[x] EXCEPT !.ttl = @ - 1] ELSE c[x]]
\* keys of one SCAN page starting at slot cursor, in slot order
RECURSIVE ScanFrom(_, _, _)
ScanFrom(c, i, last) ==
    IF i > last THEN <<>>
    ELSE (IF RedisHas(c, KeySeq[i]) /\ MatchesPattern(KeySeq[i])
             THEN <<KeySeq[i]>> ELSE <<>>) \o ScanFrom(c, i + 1, last)
Min(a, b) == IF a < b THEN a ELSE b
RedisScanKeys(c, cursor) == ScanFrom(c, cursor + 1, Min(cursor + scanCount, Len(KeySeq)))
RedisScanNext(cursor) ==
    IF cursor + scanCount >= Len(KeySeq) THEN 0 ELSE cursor + scanCount

\* ------------------------------------------------------------------- state
VARIABLES
    fakeProductDB,   \* the simulated DB: map id -> Product
    cache,           \* the Redis keyspace: map key -> [val, ttl]
    cacheUp,         \* FALSE while the Redis server cannot be reached
    req,             \* per request task: handler, position and locals
    cleaner,         \* the cache cleaner goroutine: position and locals
    lastRet,         \* per id: result of the last GET that no PUT overlapped
    residual,        \* per id: -1, or ticks since a PUT returned leaving a stale entry
    born,            \* per id: ticks since the cache entry was SET
    fakeDBLock,      \* the RWMutex of the simulated DB: tasks holding it
    ctxDone          \* TRUE once the cleaner's context is cancelled

vars == <<fakeProductDB, cache, cacheUp, req, cleaner, lastRet, residual, born,
          fakeDBLock, ctxDone>>

\* getErr is the outcome of the cache lookup: "nil", "redis.Nil" (no such
\* key), "down" (the command failed) or "json" (the value did not unmarshal).
\* status is the HTTP status the handler is about to write (0: none yet).
\* snapOk, quiet and delOk record what the task saw, for the properties below:
\* snapOk - no PUT of the same id ran since this GET began;
\* quiet  - no GET of the same id ran since this PUT issued its first DEL;
\* delOk  - the DELs issued so far succeeded.
\* dbProduct is the pointer read from the map: <<>> is nil, otherwise the
\* id it was read for and the Product allocated at that address.
IdleReq == [pc |-> "idle", op |-> "none", id |-> 0, input |-> ZeroProduct,
            dbProduct |-> <<>>, product |-> ZeroProduct, getErr |-> "nil", hits |-> 0, cacheHit |-> FALSE,
            status |-> 0, snapOk |-> FALSE, delOk |-> TRUE, quiet |-> FALSE]

\* deleted counts the DELs issued by the current or the last pass, failed
\* holds the keys whose TTL query or DEL failed in it
IdleCleaner == [pc |-> "wait", cursor |-> 0, keys |-> <<>>, nextCursor |-> 0,
                ttl |-> 0, deleted |-> 0, failed |-> {}, scanErr |-> FALSE]

\* sync.RWMutex: any number of readers or one writer
FreeLock == [readers |-> {}, writer |-> {}]

InitDB == (1 :> Product(1, "Apple", 100)) @@ (2 :> Product(2, "Banana", 50))
          @@ (3 :> Product(3, "Cherry", 200))

EmptyCache == [k \in {} |-> 0]

Init ==
    /\ fakeProductDB = InitDB
    /\ cache = EmptyCache
    /\ cacheUp = TRUE
    /\ req = [p \in Procs |-> IdleReq]
    /\ cleaner = IdleCleaner
    /\ lastRet = [i \in ReqIds |-> <<>>]
    /\ residual = [i \in ReqIds |-> -1]
    /\ born = [i \in ReqIds |-> 0]
    /\ fakeDBLock = FreeLock
    /\ ctxDone = FALSE

\* ------------------------------------------------------------ bookkeeping
Running(r) == r.pc # "idle"
FetchInFlight(id) == \E q \in Procs : Running(req[q]) /\ req[q].op = "fetch" /\ req[q].id = id
UpdateInFlight(id) == \E q \in Procs : Running(req[q]) /\ req[q].op = "update" /\ req[q].id = id
AnyRunning == \E q \in Procs : Running(req[q])

Inc(a) == IF a < MaxAge THEN a + 1 ELSE a
IdOfKey(key) == key[2]
IsEntryKey(key) == Len(key) = 2 /\ MatchesPattern(key)

\* the cache entry of id holds a Product other than the store's
StaleEntry(c, db, id) ==
    /\ RedisHas(c, redisProductKey(id))
    /\ CanUnmarshal(c[redisProductKey(id)].val)
    /\ id \in DOMAIN db
    /\ Unmarshal(c[redisProductKey(id)].val) # db[id]

\* residual after the entry key of id was removed or written anew
ResidualCleared(key) ==
    IF IsEntryKey(key) /\ IdOfKey(key) \in ReqIds
        THEN [residual EXCEPT ![IdOfKey(key)] = -1] ELSE residual
BornReset(key) ==
    IF IsEntryKey(key) /\ IdOfKey(key) \in ReqIds
        THEN [born EXCEPT ![IdOfKey(key)] = 0] ELSE born

\* ------------------------------------------------- GET /product/{id}
\* main.go:91-103
StartFetch(p, id) ==
    /\ ~Running(req[p])
    /\ req' = [q \in Procs |->
                 IF q = p
                    THEN [IdleReq EXCEPT !.pc = "get", !.op = "fetch", !.id = id,
                            !.snapOk = ~UpdateInFlight(id)]
                 ELSE IF Running(req[q]) /\ req[q].op = "update" /\ req[q].id = id
                         THEN [req[q] EXCEPT !.quiet = FALSE]
                         ELSE req[q]]
    /\ UNCHANGED <<fakeProductDB, cache, cacheUp, cleaner, lastRet, residual, born, fakeDBLock, ctxDone>>

\* the outcome of redisClient.Get followed by json.Unmarshal (main.go:106-108)
Lookup(c, up, key) ==
    IF ~up THEN "down"
    ELSE IF ~RedisHas(c, key) THEN "redis.Nil"
    ELSE IF ~CanUnmarshal(c[key].val) THEN "json"
    ELSE "nil"

\* F_Get taking a value that does not unmarshal for a hit
F_Get_IgnoreJsonError(p) ==
    LET r == req[p]
        key == redisProductKey(r.id)
        e == Lookup(cache, cacheUp, key)
    IN  /\ r.pc = "get"
        /\ req' = [req EXCEPT ![p] =
                     IF e \in {"nil", "json"}
                        THEN [r EXCEPT !.pc = "incr", !.cacheHit = TRUE, !.getErr = e,
                                       !.product = IF e = "nil" THEN Unmarshal(cache[key].val)
                                                                ELSE ZeroProduct]
                        ELSE [r EXCEPT !.pc = "dbread", !.getErr = e]]
        /\ UNCHANGED <<fakeProductDB, cache, cacheUp, cleaner, lastRet, residual, born, fakeDBLock, ctxDone>>

\* main.go:106-109: a failed GET and an undeserializable value both leave
\* cacheHit false
F_Get(p) ==
    LET r == req[p]
        key == redisProductKey(r.id)
        e == Lookup(cache, cacheUp, key)
    IN  /\ r.pc = "get"
        /\ req' = [req EXCEPT ![p] =
                     IF e = "nil"
                        THEN [r EXCEPT !.pc = "incr", !.cacheHit = TRUE,
                                       !.product = Unmarshal(cache[key].val)]
                        ELSE [r EXCEPT !.pc = "dbread", !.getErr = e]]
        /\ UNCHANGED <<fakeProductDB, cache, cacheUp, cleaner, lastRet, residual, born, fakeDBLock, ctxDone>>

\* main.go:113 with > in place of >=
IsPopular_Strict(hits) == hits > popularThreshold

\* main.go:113
IsPopular(hits) == hits >= popularThreshold

\* main.go:111-113: the error of INCR is dropped, hits is then 0
F_Incr(p) ==
    LET r == req[p]
        hkey == redisProductHitsKey(r.id)
        c2 == IF cacheUp THEN RedisIncr(cache, hkey) ELSE cache
        hits == IF cacheUp THEN c2[hkey].val ELSE 0
    IN  /\ r.pc = "incr"
        /\ RedisHas(cache, hkey) => cache[hkey].val < MaxHits
        /\ cache' = c2
        /\ req' = [req EXCEPT ![p] =
                     IF IsPopular(hits)
                        THEN [r EXCEPT !.hits = hits, !.pc = "expire1"]
                        ELSE [r EXCEPT !.hits = hits, !.pc = "respond", !.status = 200]]
        /\ UNCHANGED <<fakeProductDB, cacheUp, cleaner, lastRet, residual, born, fakeDBLock, ctxDone>>

\* main.go:115
F_Expire1(p) ==
    LET r == req[p] IN
        /\ r.pc = "expire1"
        /\ cache' = IF cacheUp THEN RedisExpire(cache, redisProductKey(r.id), redisProductTTL)
                               ELSE cache
        /\ req' = [req EXCEPT ![p].pc = "expire2"]
        /\ UNCHANGED <<fakeProductDB, cacheUp, cleaner, lastRet, residual, born, fakeDBLock, ctxDone>>

\* main.go:116
F_Expire2(p) ==
    LET r == req[p] IN
        /\ r.pc = "expire2"
        /\ cache' = IF cacheUp THEN RedisExpire(cache, redisProductHitsKey(r.id), redisProductTTL)
                               ELSE cache
        /\ req' = [req EXCEPT ![p] = [r EXCEPT !.pc = "respond", !.status = 200]]
        /\ UNCHANGED <<fakeProductDB, cacheUp, cleaner, lastRet, residual, born, fakeDBLock, ctxDone>>

\* F_DbRead going on to the miss-fill when the store has no record
F_DbRead_NoOkCheck(p) ==
    LET r == req[p] IN
        /\ r.pc = "dbread"
        /\ req' = [req EXCEPT ![p] =
                     IF r.id \in DOMAIN fakeProductDB
                        THEN [r EXCEPT !.pc = "set1", !.product = fakeProductDB[r.id]]
                        ELSE [r EXCEPT !.pc = "set1"]]
        /\ UNCHANGED <<fakeProductDB, cache, cacheUp, cleaner, lastRet, residual, born, fakeDBLock, ctxDone>>

\* main.go:120-129
F_DbRead(p) ==
    LET r == req[p] IN
        /\ r.pc = "dbread"
        /\ req' = [req EXCEPT ![p] =
                     IF r.id \in DOMAIN fakeProductDB
                        THEN [r EXCEPT !.pc = "set1", !.product = fakeProductDB[r.id]]
                        ELSE [r EXCEPT !.pc = "respond", !.status = 404]]
        /\ UNCHANGED <<fakeProductDB, cache, cacheUp, cleaner, lastRet, residual, born, fakeDBLock, ctxDone>>

\* main.go:131-132
F_Set1(p) ==
    LET r == req[p]
        key == redisProductKey(r.id)
    IN  /\ r.pc = "set1"
        /\ cache' = IF cacheUp THEN RedisSet(cache, key, Marshal(r.product), redisProductTTL)
                               ELSE cache
        /\ residual' = IF cacheUp THEN ResidualCleared(key) ELSE residual
        /\ born' = IF cacheUp THEN BornReset(key) ELSE born
        /\ req' = [req EXCEPT ![p].pc = "set2"]
        /\ UNCHANGED <<fakeProductDB, cacheUp, cleaner, lastRet, fakeDBLock, ctxDone>>

\* F_Set2 starting the hit counter at 0
F_Set2_FromZero(p) ==
    LET r == req[p] IN
        /\ r.pc = "set2"
        /\ cache' = IF cacheUp THEN RedisSet(cache, redisProductHitsKey(r.id), 0, redisProductTTL)
                               ELSE cache
        /\ req' = [req EXCEPT ![p] = [r EXCEPT !.pc = "respond", !.status = 200]]
        /\ UNCHANGED <<fakeProductDB, cacheUp, cleaner, lastRet, residual, born, fakeDBLock, ctxDone>>

\* main.go:133
F_Set2(p) ==
    LET r == req[p] IN
        /\ r.pc = "set2"
        /\ cache' = IF cacheUp THEN RedisSet(cache, redisProductHitsKey(r.id), 1, redisProductTTL)
                               ELSE cache
        /\ req' = [req EXCEPT ![p] = [r EXCEPT !.pc = "respond", !.status = 200]]
        /\ UNCHANGED <<fakeProductDB, cacheUp, cleaner, lastRet, residual, born, fakeDBLock, ctxDone>>

\* main.go:126, 136-137: the response is written and the handler returns
F_Respond(p) ==
    LET r == req[p] IN
        /\ r.pc = "respond"
        /\ r.op = "fetch"
        /\ req' = [req EXCEPT ![p] = IdleReq]
        /\ lastRet' = IF r.snapOk /\ r.status = 200
                         THEN [lastRet EXCEPT ![r.id] = <<r.product>>] ELSE lastRet
        /\ UNCHANGED <<fakeProductDB, cache, cacheUp, cleaner, residual, born, fakeDBLock, ctxDone>>

\* ------------------------------------------------- PUT /product/{id}
\* main.go:141-149.  A PUT of id ends the window in which GETs of id are
\* compared with each other.
StartUpdate(p, id) ==
    /\ ~Running(req[p])
    /\ req' = [q \in Procs |->
                 IF q = p THEN [IdleReq EXCEPT !.pc = "decode", !.op = "update", !.id = id]
                 ELSE IF Running(req[q]) /\ req[q].op = "fetch" /\ req[q].id = id
                         THEN [req[q] EXCEPT !.snapOk = FALSE]
                         ELSE req[q]]
    /\ lastRet' = [lastRet EXCEPT ![id] = <<>>]
    /\ UNCHANGED <<fakeProductDB, cache, cacheUp, cleaner, residual, born, fakeDBLock, ctxDone>>

\* U_Decode without the comparison of the body's ID with the path
U_Decode_NoIdCheck(p) ==
    LET r == req[p] IN
        /\ r.pc = "decode"
        /\ \E jsonOk \in BOOLEAN, body \in Inputs :
              req' = [req EXCEPT ![p] =
                        IF ~jsonOk THEN [r EXCEPT !.pc = "respond", !.status = 400]
                        ELSE [r EXCEPT !.pc = "dbwrite", !.input = body]]
        /\ UNCHANGED <<fakeProductDB, cache, cacheUp, cleaner, lastRet, residual, born, fakeDBLock, ctxDone>>

\* main.go:151-159: the body is decoded, then its ID is compared with the path
U_DecodeFrom(p, bodies) ==
    LET r == req[p] IN
        /\ r.pc = "decode"
        /\ \E jsonOk \in BOOLEAN, body \in bodies :
              req' = [req EXCEPT ![p] =
                        IF ~jsonOk THEN [r EXCEPT !.pc = "respond", !.status = 400]
                        ELSE IF body.ID # r.id
                                THEN [r EXCEPT !.pc = "respond", !.status = 400, !.input = body]
                                ELSE [r EXCEPT !.pc = "dbwrite", !.input = body]]
        /\ UNCHANGED <<fakeProductDB, cache, cacheUp, cleaner, lastRet, residual, born, fakeDBLock, ctxDone>>

U_Decode(p) == U_DecodeFrom(p, Inputs)

\* main.go:161-164
DBPut(db, id, in) ==
    [x \in DOMAIN db \cup {id} |->
        IF x = id THEN Product(id, in.Name, in.Price) ELSE db[x]]

\* U_DbWrite writing the new record through to the cache as well
U_DbWrite_WriteThrough(p) ==
    LET r == req[p] IN
        /\ r.pc = "dbwrite"
        /\ fakeProductDB' = DBPut(fakeProductDB, r.id, r.input)
        /\ cache' = RedisSet(cache, redisProductKey(r.id), Marshal(r.input), redisProductTTL)
        /\ req' = [req EXCEPT ![p].pc = "del1"]
        /\ UNCHANGED <<cacheUp, cleaner, lastRet, residual, born, fakeDBLock, ctxDone>>

\* main.go:162-164 taken in one step
U_DbWrite(p) ==
    LET r == req[p] IN
        /\ r.pc = "dbwrite"
        /\ fakeProductDB' = DBPut(fakeProductDB, r.id, r.input)
        /\ req' = [req EXCEPT ![p].pc = "del1"]
        /\ UNCHANGED <<cache, cacheUp, cleaner, lastRet, residual, born, fakeDBLock, ctxDone>>

\* U_Del1 answering 500 when the delete fails
U_Del1_AbortOnError(p) ==
    LET r == req[p]
        key == redisProductKey(r.id)
    IN  /\ r.pc = "del1"
        /\ cache' = IF cacheUp THEN RedisDel(cache, key) ELSE cache
        /\ residual' = IF cacheUp THEN ResidualCleared(key) ELSE residual
        /\ born' = IF cacheUp THEN BornReset(key) ELSE born
        /\ req' = [req EXCEPT ![p] =
                     IF cacheUp THEN [r EXCEPT !.pc = "del2", !.delOk = TRUE,
                                               !.quiet = ~FetchInFlight(r.id)]
                                ELSE [r EXCEPT !.pc = "respond", !.status = 500, !.delOk = FALSE]]
        /\ UNCHANGED <<fakeProductDB, cacheUp, cleaner, lastRet, fakeDBLock, ctxDone>>

\* main.go:167-169
U_Del1(p) ==
    LET r == req[p]
        key == redisProductKey(r.id)
    IN  /\ r.pc = "del1"
        /\ cache' = IF cacheUp THEN RedisDel(cache, key) ELSE cache
        /\ residual' = IF cacheUp THEN ResidualCleared(key) ELSE residual
        /\ born' = IF cacheUp THEN BornReset(key) ELSE born
        /\ req' = [req EXCEPT ![p] = [r EXCEPT !.pc = "del2", !.delOk = cacheUp,
                                               !.quiet = ~FetchInFlight(r.id)]]
        /\ UNCHANGED <<fakeProductDB, cacheUp, cleaner, lastRet, fakeDBLock, ctxDone>>

\* U_Del2 deleting the entry key a second time instead of the hits key
U_Del2_WrongKey(p) ==
    LET r == req[p] IN
        /\ r.pc = "del2"
        /\ cache' = IF cacheUp THEN RedisDel(cache, redisProductKey(r.id)) ELSE cache
        /\ req' = [req EXCEPT ![p] = [r EXCEPT !.pc = "respond", !.status = 204,
                                               !.delOk = r.delOk /\ cacheUp]]
        /\ UNCHANGED <<fakeProductDB, cacheUp, cleaner, lastRet, residual, born, fakeDBLock, ctxDone>>

\* main.go:170
U_Del2(p) ==
    LET r == req[p] IN
        /\ r.pc = "del2"
        /\ cache' = IF cacheUp THEN RedisDel(cache, redisProductHitsKey(r.id)) ELSE cache
        /\ req' = [req EXCEPT ![p] = [r EXCEPT !.pc = "respond", !.status = 204,
                                               !.delOk = r.delOk /\ cacheUp]]
        /\ UNCHANGED <<fakeProductDB, cacheUp, cleaner, lastRet, residual, born, fakeDBLock, ctxDone>>

\* main.go:153, 157, 172: the response is written and the handler returns
U_Respond(p) ==
    LET r == req[p] IN
        /\ r.pc = "respond"
        /\ r.op = "update"
        /\ req' = [req EXCEPT ![p] = IdleReq]
        /\ residual' = IF r.status = 204 /\ ~r.delOk /\ StaleEntry(cache, fakeProductDB, r.id) /\ residual[r.id] < 0
                          THEN [residual EXCEPT ![r.id] = 0] ELSE residual
        /\ UNCHANGED <<fakeProductDB, cache, cacheUp, cleaner, lastRet, born, fakeDBLock, ctxDone>>

\* --------------------------------------------- the store under its lock
\* The steps of main.go:122-129 and 162-164 taken one at a time.  F_DbRead
\* and U_DbWrite above take them in one step each.

\* Deref with updates writing into the Product the map already points to
Deref_InPlace(db, ptr) == db[ptr[1]]

\* the Product a pointer read from the map points to: every PUT allocates a
\* new Product (main.go:163), so what was read stays as it was
Deref(db, ptr) == ptr[2]

\* main.go:122
F_RLock(p) ==
    /\ req[p].pc = "dbread"
    /\ fakeDBLock.writer = {}
    /\ fakeDBLock' = [fakeDBLock EXCEPT !.readers = @ \cup {p}]
    /\ req' = [req EXCEPT ![p].pc = "lookup"]
    /\ UNCHANGED <<fakeProductDB, cache, cacheUp, cleaner, lastRet, residual, born, ctxDone>>

\* main.go:123
F_Lookup(p) ==
    LET r == req[p] IN
        /\ r.pc = "lookup"
        /\ req' = [req EXCEPT ![p] =
                     [r EXCEPT !.pc = "runlock",
                               !.dbProduct = IF r.id \in DOMAIN fakeProductDB
                                                THEN <<r.id, fakeProductDB[r.id]>> ELSE <<>>]]
        /\ UNCHANGED <<fakeProductDB, cache, cacheUp, cleaner, lastRet, residual, born,
                       fakeDBLock, ctxDone>>

\* F_RUnlock put off to the end of the handler (defer)
F_RUnlock_Deferred(p) ==
    LET r == req[p] IN
        /\ r.pc = "runlock"
        /\ req' = [req EXCEPT ![p] =
                     IF r.dbProduct = <<>> THEN [r EXCEPT !.pc = "respond", !.status = 404]
                                          ELSE [r EXCEPT !.pc = "copy1"]]
        /\ UNCHANGED <<fakeProductDB, cache, cacheUp, cleaner, lastRet, residual, born,
                       fakeDBLock, ctxDone>>

\* main.go:124-128
F_RUnlock(p) ==
    LET r == req[p] IN
        /\ r.pc = "runlock"
        /\ fakeDBLock' = [fakeDBLock EXCEPT !.readers = @ \ {p}]
        /\ req' = [req EXCEPT ![p] =
                     IF r.dbProduct = <<>> THEN [r EXCEPT !.pc = "respond", !.status = 404]
                                          ELSE [r EXCEPT !.pc = "copy1"]]
        /\ UNCHANGED <<fakeProductDB, cache, cacheUp, cleaner, lastRet, residual, born, ctxDone>>

\* main.go:129: the struct is copied field by field
F_Copy1(p) ==
    LET r == req[p]
        obj == Deref(fakeProductDB, r.dbProduct)
    IN  /\ r.pc = "copy1"
        /\ req' = [req EXCEPT ![p] =
                     [r EXCEPT !.pc = "copy2", !.product = Product(obj.ID, obj.Name, r.product.Price)]]
        /\ UNCHANGED <<fakeProductDB, cache, cacheUp, cleaner, lastRet, residual, born,
                       fakeDBLock, ctxDone>>

F_Copy2(p) ==
    LET r == req[p]
        obj == Deref(fakeProductDB, r.dbProduct)
    IN  /\ r.pc = "copy2"
        /\ req' = [req EXCEPT ![p] =
                     [r EXCEPT !.pc = "set1", !.product = Product(r.product.ID, r.product.Name, obj.Price)]]
        /\ UNCHANGED <<fakeProductDB, cache, cacheUp, cleaner, lastRet, residual, born,
                       fakeDBLock, ctxDone>>

\* main.go:162
U_Lock(p) ==
    /\ req[p].pc = "dbwrite"
    /\ fakeDBLock = FreeLock
    /\ fakeDBLock' = [fakeDBLock EXCEPT !.writer = {p}]
    /\ req' = [req EXCEPT ![p].pc = "store"]
    /\ UNCHANGED <<fakeProductDB, cache, cacheUp, cleaner, lastRet, residual, born, ctxDone>>

\* main.go:163
U_Store(p) ==
    LET r == req[p] IN
        /\ r.pc = "store"
        /\ fakeProductDB' = DBPut(fakeProductDB, r.id, r.input)
        /\ req' = [req EXCEPT ![p].pc = "unlock"]
        /\ UNCHANGED <<cache, cacheUp, cleaner, lastRet, residual, born, fakeDBLock, ctxDone>>

\* U_Unlock moving on to the deletes with the lock still held
U_Unlock_Held(p) ==
    /\ req[p].pc = "unlock"
    /\ req' = [req EXCEPT ![p].pc = "del1"]
    /\ UNCHANGED <<fakeProductDB, cache, cacheUp, cleaner, lastRet, residual, born,
                   fakeDBLock, ctxDone>>

\* main.go:164
U_Unlock(p) ==
    /\ req[p].pc = "unlock"
    /\ fakeDBLock' = [fakeDBLock EXCEPT !.writer = @ \ {p}]
    /\ req' = [req EXCEPT ![p].pc = "del1"]
    /\ UNCHANGED <<fakeProductDB, cache, cacheUp, cleaner, lastRet, residual, born, ctxDone>>

\* ------------------------------------------------------------ environment
\* one unit of time passes: keys age, keys past their expiry instant vanish
Tick ==
    LET c2 == RedisTick(cache) IN
        /\ cache' = c2
        /\ born' = [i \in ReqIds |->
                      IF RedisHas(c2, redisProductKey(i)) THEN Inc(born[i]) ELSE 0]
        /\ residual' = [i \in ReqIds |->
                          IF ~RedisHas(c2, redisProductKey(i)) THEN -1
                          ELSE IF residual[i] >= 0 THEN Inc(residual[i]) ELSE -1]
        /\ UNCHANGED <<fakeProductDB, cacheUp, req, cleaner, lastRet, fakeDBLock, ctxDone>>

\* the Redis server becomes unreachable / reachable again
CacheFail ==
    /\ cacheUp
    /\ cacheUp' = FALSE
    /\ UNCHANGED <<fakeProductDB, cache, req, cleaner, lastRet, residual, born, fakeDBLock, ctxDone>>

CacheRecover ==
    /\ ~cacheUp
    /\ cacheUp' = TRUE
    /\ UNCHANGED <<fakeProductDB, cache, req, cleaner, lastRet, residual, born, fakeDBLock, ctxDone>>

\* the value under an entry key is damaged and no longer deserializes
Corrupt(id) ==
    /\ RedisHas(cache, redisProductKey(id))
    /\ cache[redisProductKey(id)].val # Garbage
    /\ cache' = [cache EXCEPT ![redisProductKey(id)].val = Garbage]
    /\ UNCHANGED <<fakeProductDB, cacheUp, req, cleaner, lastRet, residual, born, fakeDBLock, ctxDone>>

\* ------------------------------------------------------- cache cleaner
\* main.go:183-184, 192-195: the ticker fires and a pass starts at cursor 0
C_Fire ==
    /\ cleaner.pc = "wait"
    /\ cleaner' = [IdleCleaner EXCEPT !.pc = "scan"]
    /\ UNCHANGED <<fakeProductDB, cache, cacheUp, req, lastRet, residual, born, fakeDBLock, ctxDone>>

\* main.go:180-182: the select takes the Done case and the loop returns
C_Exit ==
    /\ cleaner.pc = "wait"
    /\ ctxDone
    /\ cleaner' = [cleaner EXCEPT !.pc = "exited"]
    /\ UNCHANGED <<fakeProductDB, cache, cacheUp, req, lastRet, residual, born, fakeDBLock, ctxDone>>

\* main.go:176: the context handed to runCacheCleaner is cancelled
Cancel ==
    /\ ~ctxDone
    /\ ctxDone' = TRUE
    /\ UNCHANGED <<fakeProductDB, cache, cacheUp, req, cleaner, lastRet, residual, born, fakeDBLock>>

\* the outcomes of a command of the cleaner (main.go:198, 205, 207): an
\* error when the backend is down, no error when it is up, and either once
\* the context the command carries is cancelled
CleanerErrs == IF ~cacheUp THEN {TRUE} ELSE IF ctxDone THEN {TRUE, FALSE} ELSE {FALSE}

\* the pass is over (main.go:200-201, 210-211): what it did stays on record
PassEnd(cl) == [IdleCleaner EXCEPT !.deleted = cl.deleted, !.failed = cl.failed,
                                   !.scanErr = cl.scanErr]

\* CleanerAdvance without main.go:213: the next scan starts where this one did
CleanerAdvance_SameCursor(cl) ==
    IF Len(cl.keys) > 1 THEN [cl EXCEPT !.pc = "ttl", !.keys = Tail(cl.keys)]
    ELSE IF cl.nextCursor = 0 THEN PassEnd(cl)
    ELSE [cl EXCEPT !.pc = "scan", !.keys = <<>>]

\* the cleaner after it is done with the first key of its page
\* (main.go:203, 210-213)
CleanerAdvance(cl) ==
    IF Len(cl.keys) > 1 THEN [cl EXCEPT !.pc = "ttl", !.keys = Tail(cl.keys)]
    ELSE IF cl.nextCursor = 0 THEN PassEnd(cl)
    ELSE [cl EXCEPT !.pc = "scan", !.keys = <<>>, !.cursor = cl.nextCursor]

\* main.go:198-202
C_Scan ==
    /\ cleaner.pc = "scan"
    /\ \E err \in CleanerErrs :
          cleaner' =
             IF err THEN PassEnd([cleaner EXCEPT !.scanErr = TRUE])
             ELSE LET ks == RedisScanKeys(cache, cleaner.cursor)
                      cl == [cleaner EXCEPT !.keys = ks,
                                            !.nextCursor = RedisScanNext(cleaner.cursor)]
                  IN  IF ks # <<>> THEN [cl EXCEPT !.pc = "ttl"]
                      ELSE CleanerAdvance(cl)
    /\ UNCHANGED <<fakeProductDB, cache, cacheUp, req, lastRet, residual, born, fakeDBLock, ctxDone>>

\* main.go:206 with ttl < 0 in place of ttl <= 0
ShouldDelete_Negative(err, ttl) == ~err /\ (ttl < 0 \/ ttl = NoExpiry)

\* main.go:206: the key is deleted when the TTL query succeeded and
\* ttl <= 0 || ttl == -1
ShouldDelete(err, ttl) == ~err /\ (ttl <= 0 \/ ttl = NoExpiry)

\* C_TTL taking a failed TTL query for a reason to end the pass
C_TTL_AbortOnError ==
    /\ cleaner.pc = "ttl"
    /\ \E err \in CleanerErrs :
          LET key == Head(cleaner.keys)
              ttl == IF err THEN 0 ELSE RedisTTL(cache, key)
          IN  cleaner' = IF ShouldDelete(err, ttl)
                            THEN [cleaner EXCEPT !.pc = "del", !.ttl = ttl]
                            ELSE IF err THEN PassEnd([cleaner EXCEPT !.failed = @ \cup {key}])
                            ELSE CleanerAdvance(cleaner)
    /\ UNCHANGED <<fakeProductDB, cache, cacheUp, req, lastRet, residual, born, fakeDBLock, ctxDone>>

\* main.go:205-206
C_TTL ==
    /\ cleaner.pc = "ttl"
    /\ \E err \in CleanerErrs :
          LET key == Head(cleaner.keys)
              ttl == IF err THEN 0 ELSE RedisTTL(cache, key)
          IN  cleaner' = IF ShouldDelete(err, ttl)
                            THEN [cleaner EXCEPT !.pc = "del", !.ttl = ttl]
                            ELSE IF err THEN CleanerAdvance([cleaner EXCEPT !.failed = @ \cup {key}])
                            ELSE CleanerAdvance(cleaner)
    /\ UNCHANGED <<fakeProductDB, cache, cacheUp, req, lastRet, residual, born, fakeDBLock, ctxDone>>

\* main.go:207
C_Del ==
    /\ cleaner.pc = "del"
    /\ \E err \in CleanerErrs :
          LET key == Head(cleaner.keys) IN
             /\ cache' = IF err THEN cache ELSE RedisDel(cache, key)
             /\ residual' = IF err THEN residual ELSE ResidualCleared(key)
             /\ born' = IF err THEN born ELSE BornReset(key)
             /\ cleaner' = CleanerAdvance(
                              IF err THEN [cleaner EXCEPT !.ttl = 0, !.failed = @ \cup {key}]
                                     ELSE [cleaner EXCEPT !.ttl = 0, !.deleted = @ + 1])
    /\ UNCHANGED <<fakeProductDB, cacheUp, req, lastRet, fakeDBLock, ctxDone>>

\* ---------------------------------------------------------- specifications
Fetch(p) ==
    \/ \E id \in ReqIds : StartFetch(p, id)
    \/ F_Get(p) \/ F_Incr(p) \/ F_Expire1(p) \/ F_Expire2(p)
    \/ F_DbRead(p) \/ F_Set1(p) \/ F_Set2(p) \/ F_Respond(p)

Update(p) ==
    \/ \E id \in ReqIds : StartUpdate(p, id)
    \/ U_Decode(p) \/ U_DbWrite(p) \/ U_Del1(p) \/ U_Del2(p) \/ U_Respond(p)

\* concurrent requests and the clock; every cache command succeeds
Next ==
    \/ \E p \in Procs : Fetch(p)
    \/ \E p \in Procs : Update(p)
    \/ Tick

Spec == Init /\ [][Next]_vars

\* one request at a time, no expiry, every cache command succeeds
NextSeq ==
    \/ Fetch(1)
    \/ Update(1)

SeqSpec == Init /\ [][NextSeq]_vars

\* one request at a time and the clock, with cache commands that fail and
\* entries that do not deserialize
NextFault ==
    \/ Fetch(1)
    \/ Update(1)
    \/ Tick
    \/ CacheFail
    \/ CacheRecover
    \/ \E id \in ReqIds : Corrupt(id)

SpecFault == Init /\ [][NextFault]_vars

\* concurrent requests with the store accessed step by step under its
\* lock; PUT bodies that change name and price together
LockInputs == { Product(1, "Apricot", 120), Product(1, "Apple", 100) }

FetchLocked(p) ==
    \/ \E id \in ReqIds : StartFetch(p, id)
    \/ F_Get(p) \/ F_Incr(p) \/ F_Expire1(p) \/ F_Expire2(p)
    \/ F_RLock(p) \/ F_Lookup(p) \/ F_RUnlock(p) \/ F_Copy1(p) \/ F_Copy2(p)
    \/ F_Set1(p) \/ F_Set2(p) \/ F_Respond(p)

UpdateLocked(p) ==
    \/ \E id \in ReqIds : StartUpdate(p, id)
    \/ U_DecodeFrom(p, LockInputs)
    \/ U_Lock(p) \/ U_Store(p) \/ U_Unlock(p)
    \/ U_Del1(p) \/ U_Del2(p) \/ U_Respond(p)

NextLock ==
    \/ \E p \in Procs : FetchLocked(p)
    \/ \E p \in Procs : UpdateLocked(p)

LockSpec == Init /\ [][NextLock]_vars

\* the cleaner alone on a keyspace left behind by earlier requests: entries
\* and hit counters with time left, at their expiry instant, and (counters
\* created by INCR) without expiry, next to a key of another application
SweepEntry(id, name, price) ==
    {<<>>} \cup {<<[val |-> Marshal(Product(id, name, price)), ttl |-> t]>> : t \in 0 .. redisProductTTL}
SweepHits ==
    {<<>>} \cup {<<[val |-> n, ttl |-> t]>> : n \in 1 .. 2, t \in NoExpiry .. redisProductTTL}
SweepForeign == {<<>>, <<[val |-> <<"other">>, ttl |-> NoExpiry]>>}

\* the keyspace holding the chosen content (<<>>: key missing) in each slot
Keyspace(content) ==
    [k \in {KeySeq[i] : i \in {j \in 1 .. Len(KeySeq) : content[j] # <<>>}} |->
        content[CHOOSE i \in 1 .. Len(KeySeq) : KeySeq[i] = k][1]]

InitSweep ==
    /\ fakeProductDB = InitDB
    /\ \E e1 \in SweepEntry(1, "Apple", 100), h1 \in SweepHits, f \in SweepForeign,
          e4 \in SweepEntry(4, "Durian", 70), h4 \in SweepHits :
          cache = Keyspace(<<e1, h1, f, e4, h4>>)
    /\ cacheUp = TRUE
    /\ req = [p \in Procs |-> IdleReq]
    /\ cleaner = IdleCleaner
    /\ lastRet = [i \in ReqIds |-> <<>>]
    /\ residual = [i \in ReqIds |-> -1]
    /\ born = [i \in ReqIds |-> 0]
    /\ fakeDBLock = FreeLock
    /\ ctxDone = FALSE

NextSweep == C_Fire \/ C_Scan \/ C_TTL \/ C_Del

SweepSpec == InitSweep /\ [][NextSweep]_vars

\* the cleaner loop with its commands failing and its context cancelled at
\* any moment.  The goroutine keeps running and its commands return, so a
\* pass under way goes on (WF); the select of main.go:180-185 picks among
\* its ready cases at random, so the Done case, ready at every select once
\* the context is cancelled, is taken in the end (SF).
\* one request at a time, the clock and the cleaner loop side by side;
\* every cache command succeeds
NextClean ==
    \/ Fetch(1) \/ Update(1)
    \/ Tick
    \/ C_Fire \/ C_Scan \/ C_TTL \/ C_Del

CleanSpec == Init /\ [][NextClean]_vars

FaultEntry(id, name, price) ==
    {<<>>} \cup {<<[val |-> Marshal(Product(id, name, price)), ttl |-> t]>> : t \in {0, redisProductTTL}}
FaultHits ==
    {<<>>} \cup {<<[val |-> 1, ttl |-> t]>> : t \in {NoExpiry, 0, redisProductTTL}}

\* no clock runs here: a key is at its expiry instant, has time left or has
\* no expiry
InitSweepFault ==
    /\ fakeProductDB = InitDB
    /\ \E e1 \in FaultEntry(1, "Apple", 100), h1 \in FaultHits, f \in SweepForeign,
          e4 \in FaultEntry(4, "Durian", 70), h4 \in FaultHits :
          cache = Keyspace(<<e1, h1, f, e4, h4>>)
    /\ cacheUp = TRUE
    /\ req = [p \in Procs |-> IdleReq]
    /\ cleaner = IdleCleaner
    /\ lastRet = [i \in ReqIds |-> <<>>]
    /\ residual = [i \in ReqIds |-> -1]
    /\ born = [i \in ReqIds |-> 0]
    /\ fakeDBLock = FreeLock
    /\ ctxDone = FALSE

NextSweepFault ==
    \/ C_Fire \/ C_Scan \/ C_TTL \/ C_Del \/ C_Exit
    \/ Cancel \/ CacheFail \/ CacheRecover

SweepFaultSpec ==
    /\ InitSweepFault /\ [][NextSweepFault]_vars
    /\ WF_vars(C_Scan) /\ WF_vars(C_TTL) /\ WF_vars(C_Del)
    /\ SF_vars(C_Exit)

\* ------------------------------------------------------------- properties
Responding(p, op) == req[p].pc = "respond" /\ req[p].op = op
\* task p itself takes a step
Steps(p) == req'[p].pc # req[p].pc
NoKeysOf(c, id) == ~RedisHas(c, redisProductKey(id)) /\ ~RedisHas(c, redisProductHitsKey(id))

\* C1: a GET of k that began after every PUT of k had returned, and that no
\* PUT of k overlapped, answers with the attributes the store holds for k.
C1_ReadAfterWrite ==
    \A p \in Procs :
        (Responding(p, "fetch") /\ req[p].status = 200 /\ req[p].snapOk)
            => req[p].product = fakeProductDB[req[p].id]

\* C3 as stated: when a PUT of k returns after successful DELs and no GET of
\* k is in flight at that moment, neither key of k is in the cache.
C3_NoKeysAtReturn ==
    \A p \in Procs :
        (Responding(p, "update") /\ req[p].status = 204 /\ req[p].delOk
            /\ ~FetchInFlight(req[p].id))
            => NoKeysOf(cache, req[p].id)

\* C3 amended: no step of a PUT adds a key to the cache or changes a value in
\* it; a PUT answers 204 only after both DELs; and when the DELs succeeded and
\* no GET of k was in flight at any time from the first DEL on, neither key of
\* k is in the cache when the PUT returns.
C3_UpdateOnlyDeletes ==
    \A p \in Procs :
        (req[p].op = "update" /\ Steps(p))
            => /\ DOMAIN cache' \subseteq DOMAIN cache
               /\ \A k \in DOMAIN cache' : cache'[k] = cache[k]
               /\ req'[p].status = 204 => req[p].pc = "del2"
               /\ req[p].pc = "del2" => req[p].status = 0
               /\ req[p].pc = "del1" => ~RedisHas(cache', redisProductKey(req[p].id))
               /\ req[p].pc = "del2" => ~RedisHas(cache', redisProductHitsKey(req[p].id))

C3_QuietReturn ==
    \A p \in Procs :
        (Responding(p, "update") /\ req[p].status = 204 /\ req[p].delOk /\ req[p].quiet)
            => NoKeysOf(cache, req[p].id)

C3_Invalidation == [][C3_UpdateOnlyDeletes]_vars /\ []C3_QuietReturn

\* a PUT is about to return with both DELs done, nothing of k in the cache,
\* and the store already holding the new value
C3_Witness ==
    \E p \in Procs :
        /\ Responding(p, "update") /\ req[p].status = 204 /\ req[p].delOk /\ req[p].quiet
        /\ fakeProductDB[req[p].id].Price = 120
        /\ NoKeysOf(cache, req[p].id)
        /\ \E q \in Procs : req[q].op = "fetch" /\ req[q].id = 4

\* C4: a PUT whose body names another id than its path answers 400, never
\* reaches the store update, and none of its steps changes the store or the
\* cache.
C4_MismatchSteps ==
    \A p \in Procs :
        (req[p].op = "update" /\ Steps(p) /\ (req'[p].status = 400 \/ req[p].status = 400))
            => UNCHANGED <<fakeProductDB, cache>>

C4_MismatchRejected ==
    \A p \in Procs :
        req[p].op = "update" =>
            /\ (req[p].pc \in {"dbwrite", "del1", "del2"} \/ req[p].status = 204)
                  => req[p].input.ID = req[p].id
            /\ (req[p].pc = "respond" /\ req[p].input.ID # req[p].id) => req[p].status = 400
            /\ req[p].status = 400 => req[p].pc = "respond"

C4_Mismatch == [][C4_MismatchSteps]_vars /\ []C4_MismatchRejected

\* PUT /product/1 with the body of product 2 is answered 400 while both
\* records are in the store and product 1 is cached
C4_Witness ==
    \E p \in Procs :
        /\ Responding(p, "update") /\ req[p].status = 400
        /\ req[p].id = 1 /\ req[p].input.ID = 2
        /\ fakeProductDB[1] = Product(1, "Apple", 100)
        /\ fakeProductDB[2] = Product(2, "Banana", 50)
        /\ RedisHas(cache, redisProductKey(1))

\* C6: a GET of an id the store does not hold answers 404; no key of an id
\* missing from the store is in the cache; a GET answers 200 only for an id
\* the store holds.
C6_NotFound ==
    /\ \A id \in ReqIds : id \notin DOMAIN fakeProductDB => NoKeysOf(cache, id)
    /\ \A p \in Procs :
          Responding(p, "fetch") =>
              /\ req[p].id \notin DOMAIN fakeProductDB => req[p].status = 404
              /\ req[p].status = 200 => req[p].id \in DOMAIN fakeProductDB

\* GET /product/4 is answered 404 after product 1 was cached, updated and
\* invalidated
C6_Witness ==
    \E p \in Procs :
        /\ Responding(p, "fetch") /\ req[p].id = 4 /\ req[p].status = 404
        /\ fakeProductDB[1].Price = 120
        /\ NoKeysOf(cache, 1) /\ NoKeysOf(cache, 4)

\* C7: two GETs of k with no PUT of k running from the start of the first to
\* the end of the second answer with the same attributes.
C7_RepeatableRead ==
    \A p \in Procs :
        (Responding(p, "fetch") /\ req[p].status = 200 /\ req[p].snapOk
            /\ lastRet[req[p].id] # <<>>)
            => req[p].product = lastRet[req[p].id][1]

\* C10: on a hit whose post-increment count is at or above the threshold the
\* handler goes on to EXPIRE both keys, and each EXPIRE of a key that is
\* still there sets its remaining time to the full TTL, leaving the value
\* alone; once time has passed since the entry was written this puts its
\* expiry later than its creation plus one TTL.  Below the threshold the
\* handler answers without changing the expiry of either key.
Expiry(c, k) == IF RedisHas(c, k) /\ c[k].ttl >= 0 THEN c[k].ttl ELSE NoExpiry

C10_HitSteps ==
    \A p \in Procs :
        (req[p].op = "fetch" /\ Steps(p)) =>
            LET key == redisProductKey(req[p].id)
                hkey == redisProductHitsKey(req[p].id)
            IN  /\ req[p].pc = "incr" =>
                      IF req'[p].hits >= popularThreshold
                         THEN req'[p].pc = "expire1"
                         ELSE /\ req'[p].pc = "respond"
                              /\ Expiry(cache', key) = Expiry(cache, key)
                              /\ Expiry(cache', hkey) = Expiry(cache, hkey)
                /\ (req[p].pc = "expire1" /\ RedisHas(cache, key)) =>
                      /\ cache'[key] = [val |-> cache[key].val, ttl |-> redisProductTTL]
                      /\ born[req[p].id] > 0 =>
                            born'[req[p].id] + cache'[key].ttl > redisProductTTL
                /\ req[p].pc = "expire1" => req'[p].pc = "expire2"
                /\ (req[p].pc = "expire2" /\ RedisHas(cache, hkey)) =>
                      cache'[hkey] = [val |-> cache[hkey].val, ttl |-> redisProductTTL]

C10_Refresh == [][C10_HitSteps]_vars

\* a hit that took the counter to the threshold has just refreshed an entry
\* written at least one tick earlier
C10_Witness ==
    \E p \in Procs :
        /\ req[p].op = "fetch" /\ req[p].pc = "expire2"
        /\ req[p].hits = popularThreshold
        /\ born[req[p].id] > 0
        /\ RedisHas(cache, redisProductKey(req[p].id))
        /\ cache[redisProductKey(req[p].id)].ttl = redisProductTTL

\* C2: with one request at a time, no failure and no expiry: a GET of a
\* missing entry answers with the store's record and leaves entry = record,
\* counter = 1, both with the full TTL; a GET of a cached entry answers with
\* the same record and adds exactly 1 to the counter; a PUT stores its body
\* and leaves no key of the id; between requests a cached entry always equals
\* the store's record, so the GET after a PUT misses and refills.
C2_SeqStates ==
    LET r == req[1]
        key == redisProductKey(r.id)
        hkey == redisProductHitsKey(r.id)
    IN  /\ (Responding(1, "fetch") /\ r.status = 200 /\ ~r.cacheHit) =>
              /\ r.product = fakeProductDB[r.id]
              /\ RedisHas(cache, key) /\ RedisHas(cache, hkey)
              /\ cache[key] = [val |-> Marshal(fakeProductDB[r.id]), ttl |-> redisProductTTL]
              /\ cache[hkey] = [val |-> 1, ttl |-> redisProductTTL]
        /\ (Responding(1, "fetch") /\ r.cacheHit) =>
              /\ r.status = 200
              /\ r.product = fakeProductDB[r.id]
              /\ RedisHas(cache, hkey) /\ cache[hkey].val = r.hits
        /\ (Responding(1, "update") /\ r.status = 204) =>
              /\ fakeProductDB[r.id] = Product(r.id, r.input.Name, r.input.Price)
              /\ NoKeysOf(cache, r.id)
        /\ r.pc = "idle" =>
              \A id \in ReqIds :
                  \/ NoKeysOf(cache, id)
                  \/ /\ RedisHas(cache, redisProductKey(id))
                     /\ RedisHas(cache, redisProductHitsKey(id))
                     /\ id \in DOMAIN fakeProductDB
                     /\ cache[redisProductKey(id)].val = Marshal(fakeProductDB[id])

C2_SeqSteps ==
    LET r == req[1]
        key == redisProductKey(r.id)
        hkey == redisProductHitsKey(r.id)
    IN  /\ (r.pc = "get" /\ Steps(1)) =>
              (req'[1].pc = "dbread" <=> ~RedisHas(cache, key))
        /\ (r.pc = "incr" /\ Steps(1)) =>
              /\ RedisHas(cache, hkey)
              /\ cache'[hkey].val = cache[hkey].val + 1
              /\ req'[1].hits = cache[hkey].val + 1
              /\ cache'[key] = cache[key]

C2_Sequential == []C2_SeqStates /\ [][C2_SeqSteps]_vars

\* the last GET of the scenario: after a PUT set the price to 120 the GET
\* missed, read the store and refilled the cache with counter 1
C2_Witness ==
    /\ Responding(1, "fetch") /\ ~req[1].cacheHit /\ req[1].status = 200
    /\ req[1].product = Product(1, "Apple", 120)
    /\ cache[redisProductHitsKey(1)].val = 1

\* C5: whatever cache command of a GET fails, the GET goes on and answers 200
\* or 404; a lookup that fails or finds a value that does not unmarshal
\* changes nothing and leads to the store lookup exactly as a missing key
\* does; a GET that did not hit answers with the store's record, or 404 when
\* the store has none; a miss-fill SET that succeeds replaces whatever the
\* entry held by the record read.
C5_States ==
    LET r == req[1]
        hkey == redisProductHitsKey(r.id)
    IN  r.op = "fetch" =>
            /\ r.pc = "respond" => r.status \in {200, 404}
            /\ r.pc \in {"dbread", "set1", "set2"} => ~r.cacheHit
            /\ (r.pc = "respond" /\ ~r.cacheHit) =>
                  IF r.id \in DOMAIN fakeProductDB
                     THEN r.status = 200 /\ r.product = fakeProductDB[r.id]
                     ELSE r.status = 404
            /\ (r.pc = "respond" /\ r.cacheHit) => r.status = 200
            /\ ~(r.pc = "incr" /\ RedisHas(cache, hkey) /\ cache[hkey].val >= MaxHits)
                  => ENABLED Fetch(1)

C5_Steps ==
    LET r == req[1]
        key == redisProductKey(r.id)
    IN  (r.op = "fetch" /\ Steps(1)) =>
            /\ ~cacheUp => cache' = cache
            /\ r.pc = "get" =>
                  /\ cache' = cache
                  /\ (~cacheUp \/ ~RedisHas(cache, key) \/ cache[key].val = Garbage)
                        => req'[1].pc = "dbread" /\ ~req'[1].cacheHit
            /\ (r.pc = "incr" /\ ~cacheUp) =>
                  req'[1] = [r EXCEPT !.pc = "respond", !.status = 200]
            /\ (r.pc = "set1" /\ cacheUp) =>
                  cache'[key].val = Marshal(fakeProductDB[r.id])

C5_FailOpen == []C5_States /\ [][C5_Steps]_vars

\* a GET found a value that does not unmarshal, read the store instead and
\* is about to answer with the record, the entry rewritten
C5_Witness ==
    /\ Responding(1, "fetch") /\ req[1].getErr = "json" /\ req[1].status = 200
    /\ req[1].product = Product(1, "Apple", 120)
    /\ RedisHas(cache, redisProductKey(1))
    /\ cache[redisProductKey(1)].val = Marshal(req[1].product)

\* C8: an entry of k that a PUT left behind with pre-update attributes is
\* gone (or no longer differs from the store) once more than one TTL has
\* passed since the PUT returned.
C8_SelfHeal ==
    \A id \in ReqIds :
        residual[id] > redisProductTTL => ~StaleEntry(cache, fakeProductDB, id)

\* C9: while the cleaner runs alone, no step adds a key or touches a key
\* that has time left or does not match product:*, and when a pass ends no
\* key matching product:* is left that has no expiry or no time left.
C9_SweepSteps ==
    /\ DOMAIN cache' \subseteq DOMAIN cache
    /\ \A k \in DOMAIN cache :
          (cache[k].ttl > 0 \/ ~MatchesPattern(k))
              => k \in DOMAIN cache' /\ cache'[k] = cache[k]
    /\ (cleaner.pc # "wait" /\ cleaner'.pc = "wait") =>
          \A k \in DOMAIN cache' : MatchesPattern(k) => cache'[k].ttl > 0

C9_Sweep == [][C9_SweepSteps]_vars

\* a pass over more than one page has ended: it deleted an entry at its
\* expiry instant and a counter without expiry, and left an entry and a
\* counter with time left and the other application's key
C9_Witness ==
    /\ cleaner.pc = "wait" /\ cleaner.deleted = 2
    /\ DOMAIN cache = {redisProductKey(1), redisProductHitsKey(4), ForeignKey}
    /\ cache[redisProductKey(1)].ttl = 1
    /\ cache[redisProductHitsKey(4)].ttl = redisProductTTL

\* C11: within one update the record is in the store and the store lock is
\* released when the first delete is issued; no step of the update from its
\* first delete on writes the store or takes the lock again; and 204 is set
\* only by the step that issues the second delete.
InputRecord(r) == Product(r.id, r.input.Name, r.input.Price)

C11_Steps(p) ==
    LET r == req[p] IN
        (r.op = "update" /\ Steps(p)) =>
            /\ req'[p].pc = "del1" =>
                  /\ r.pc = "unlock"
                  /\ fakeProductDB[r.id] = InputRecord(r)
                  /\ fakeDBLock.writer = {p} /\ fakeDBLock'.writer = {}
            /\ r.pc \in {"del1", "del2", "respond"} =>
                  /\ fakeProductDB' = fakeProductDB
                  /\ fakeDBLock' = fakeDBLock
                  /\ req'[p].pc \in {"del2", "respond", "idle"}
            /\ r.pc = "del1" => req'[p].pc = "del2" /\ req'[p].status = 0
            /\ req'[p].status = 204 => r.pc = "del2" /\ req'[p].pc = "respond"

C11_Order == [][\A p \in Procs : C11_Steps(p)]_vars

\* an update is about to answer 204 while the other task holds the read
\* lock of the store: the lock was released before the deletes
C11_Witness ==
    \E p \in Procs :
        /\ Responding(p, "update") /\ req[p].status = 204
        /\ fakeDBLock.writer = {} /\ fakeDBLock.readers # {}

\* C12: an update whose body decodes and names the path's id answers 204
\* with its record in the store whether or not its deletes succeeded: the
\* step of the first delete goes on to the second whatever its outcome, the
\* second is issued and goes on to 204, and neither touches the store.
C12_States ==
    LET r == req[1] IN
        /\ (r.op = "update" /\ r.pc \in {"del1", "del2"})
              => fakeProductDB[r.id] = InputRecord(r)
        /\ Responding(1, "update") =>
              /\ r.status = 204 <=> r.input.ID = r.id
              /\ r.status = 204 => fakeProductDB[r.id] = InputRecord(r)

C12_Steps ==
    LET r == req[1] IN
        (r.op = "update" /\ Steps(1)) =>
            /\ r.pc = "del1" =>
                  /\ req'[1].pc = "del2"
                  /\ fakeProductDB' = fakeProductDB
            /\ r.pc = "del2" =>
                  /\ req'[1].pc = "respond" /\ req'[1].status = 204
                  /\ fakeProductDB' = fakeProductDB
                  /\ cacheUp => ~RedisHas(cache', redisProductHitsKey(r.id))

C12_DeleteFailure == []C12_States /\ [][C12_Steps]_vars

\* an update is about to answer 204 with its record in the store although
\* a delete failed and the entry of the old record is still in the cache
C12_Witness ==
    /\ Responding(1, "update") /\ req[1].status = 204 /\ ~req[1].delOk
    /\ fakeProductDB[1] = Product(1, "Apple", 120)
    /\ RedisHas(cache, redisProductKey(1))
    /\ cache[redisProductKey(1)].val = Marshal(Product(1, "Apple", 100))

\* C13: once the context is cancelled the cleaner loop exits, and it exits
\* only at its select, never in the middle of a pass, and stays exited; and
\* every pass under way ends, by a failed scan or at a page whose next
\* cursor is 0.
InPass == cleaner.pc \in {"scan", "ttl", "del"}

C13_Steps ==
    /\ cleaner.pc = "exited" => cleaner'.pc = "exited"
    /\ (cleaner.pc # "exited" /\ cleaner'.pc = "exited") => cleaner.pc = "wait" /\ ctxDone
    /\ (InPass /\ cleaner'.pc = "wait") =>
          \/ cleaner.pc = "scan" /\ cleaner'.scanErr /\ (~cacheUp \/ ctxDone)
          \/ cleaner.pc = "scan" /\ RedisScanNext(cleaner.cursor) = 0
          \/ cleaner.pc \in {"ttl", "del"} /\ cleaner.nextCursor = 0 /\ Len(cleaner.keys) = 1

C13_Terminates ==
    /\ ctxDone ~> (cleaner.pc = "exited")
    /\ InPass ~> (cleaner.pc = "wait")
    /\ [][C13_Steps]_vars

\* the loop has exited after the context was cancelled during a pass that
\* a failed scan then ended with keys already deleted
C13_Witness ==
    /\ cleaner.pc = "exited" /\ ctxDone
    /\ cleaner.scanErr /\ cleaner.deleted > 0
    /\ cacheUp

\* C14: a TTL query or a delete that fails for one key leaves that key in
\* the cache and moves the pass on to the next key, page or end exactly as
\* a success does; a pass that no scan error cut short leaves no key
\* matching product:* without time left other than those whose own command
\* failed; and whatever failed, the loop can start its next pass.
Stale(c, k) == MatchesPattern(k) /\ c[k].ttl <= 0

C14_Steps ==
    LET key == Head(cleaner.keys)
        failedNow == cleaner.pc \in {"ttl", "del"} /\ key \in cleaner'.failed
    IN  /\ failedNow =>
              /\ cache' = cache
              /\ ~cleaner'.scanErr
              /\ IF Len(cleaner.keys) > 1
                    THEN cleaner'.pc = "ttl" /\ cleaner'.keys = Tail(cleaner.keys)
                    ELSE IF cleaner.nextCursor # 0
                            THEN cleaner'.pc = "scan" /\ cleaner'.cursor = cleaner.nextCursor
                            ELSE cleaner'.pc = "wait"
        /\ cleaner.pc \in {"ttl", "del"} =>
              \A k \in DOMAIN cache : k # key => k \in DOMAIN cache' /\ cache'[k] = cache[k]
        /\ (InPass /\ cleaner'.pc = "wait" /\ ~cleaner'.scanErr) =>
              \A k \in DOMAIN cache' : Stale(cache', k) => k \in cleaner'.failed

C14_Isolated ==
    /\ [](cleaner.pc = "wait" => ENABLED C_Fire)
    /\ [][C14_Steps]_vars

\* a pass over two pages has ended with the TTL query or the delete of the
\* entry of product 1 failed, that entry still there, and a key visited
\* after it deleted
C14_Witness ==
    /\ cleaner.pc = "wait" /\ ~cleaner.scanErr /\ ~ctxDone
    /\ cleaner.failed = {redisProductKey(1)}
    /\ RedisHas(cache, redisProductKey(1)) /\ cache[redisProductKey(1)].ttl = 0
    /\ cleaner.deleted > 0
    /\ \A k \in DOMAIN cache : Stale(cache, k) => k = redisProductKey(1)

\* C15: every entry and every hit counter in the cache has an expiry.
C15_FiniteTTL ==
    \A id \in ReqIds :
        \A k \in {redisProductKey(id), redisProductHitsKey(id)} :
            RedisHas(cache, k) => cache[k].ttl # NoExpiry

\* C16: while no request for k is in flight, the hit counter of k is in
\* the cache only if the entry of k is.
C16_CounterWithEntry ==
    \A id \in ReqIds :
        (~FetchInFlight(id) /\ ~UpdateInFlight(id)) =>
            (RedisHas(cache, redisProductHitsKey(id)) => RedisHas(cache, redisProductKey(id)))

\* C17: no delete of the cleaner removes a key that has time left at the
\* moment of the delete.
C17_DelSteps ==
    (cleaner.pc = "del" /\ cleaner' # cleaner) =>
        LET key == Head(cleaner.keys) IN
            (RedisHas(cache, key) /\ ~RedisHas(cache', key)) => cache[key].ttl <= 0

C17_NoFreshDelete == [][C17_DelSteps]_vars

\* C18: a step that puts an entry into the cache or changes the value of
\* one is the first SET of a fetch that missed, and the value it writes is
\* the record that fetch copied from the store in the step before; so no
\* hit, refresh, update, clock tick or cleaner step writes an entry's value,
\* and every entry is a record the store has held.
StoreValues(id) ==
    (IF id \in DOMAIN InitDB THEN {InitDB[id]} ELSE {})
        \cup {Product(id, b.Name, b.Price) : b \in {x \in Inputs : x.ID = id}}

EntryWritten(c, d, id) ==
    LET key == redisProductKey(id) IN
        RedisHas(d, key) /\ (RedisHas(c, key) => d[key].val # c[key].val)

C18_Steps ==
    LET r == req[1] IN
        /\ \A id \in ReqIds :
              EntryWritten(cache, cache', id) =>
                  /\ r.op = "fetch" /\ r.pc = "set1" /\ r.id = id /\ ~r.cacheHit
                  /\ req'[1].pc = "set2"
                  /\ cache'[redisProductKey(id)].val = Marshal(r.product)
        /\ (r.op = "fetch" /\ req'[1].pc = "set1") =>
              IF r.pc = "set1" THEN req'[1].product = r.product
              ELSE r.pc = "dbread" /\ req'[1].product = fakeProductDB[r.id]

C18_States ==
    \A id \in ReqIds :
        RedisHas(cache, redisProductKey(id)) =>
            \E v \in StoreValues(id) : cache[redisProductKey(id)].val = Marshal(v)

C18_OnlyMissFill == []C18_States /\ [][C18_Steps]_vars

\* the cleaner is in the middle of a pass, an update has replaced the
\* record of product 1 and is about to delete its keys, and the entry still
\* holds the record a miss-fill read from the store before, its TTL later
\* refreshed by a hit
C18_Witness ==
    /\ cleaner.pc \in {"ttl", "del"}
    /\ req[1].op = "update" /\ req[1].pc = "del1"
    /\ fakeProductDB[1] = Product(1, "Apple", 120)
    /\ RedisHas(cache, redisProductKey(1))
    /\ cache[redisProductKey(1)].val = Marshal(Product(1, "Apple", 100))
    /\ RedisHas(cache, redisProductHitsKey(1))
    /\ cache[redisProductHitsKey(1)].val >= popularThreshold

\* C19: the record a fetch copied from the store, returns and writes into
\* the cache is, attribute for attribute, one record the store has held
\* for that id: the one its lookup found under the read lock.
Versions(id) ==
    (IF id \in DOMAIN InitDB THEN {InitDB[id]} ELSE {})
        \cup {Product(id, b.Name, b.Price) : b \in {x \in LockInputs : x.ID = id}}

C19_Whole ==
    /\ \A p \in Procs :
          LET r == req[p] IN
              (r.op = "fetch" /\ (r.pc \in {"set1", "set2"} \/ (r.pc = "respond" /\ r.status = 200)))
                  => /\ r.product \in Versions(r.id)
                     /\ ~r.cacheHit => r.product = r.dbProduct[2]
    /\ \A id \in ReqIds :
          RedisHas(cache, redisProductKey(id)) =>
              \E v \in Versions(id) : cache[redisProductKey(id)].val = Marshal(v)

\* a fetch has copied Apple/100 after releasing the read lock while an
\* update, now holding the write lock, has put Apricot/120 in the store
C19_Witness ==
    \E p, q \in Procs :
        /\ req[p].op = "fetch" /\ req[p].pc = "set1"
        /\ req[p].product = Product(1, "Apple", 100)
        /\ req[q].op = "update" /\ req[q].pc = "unlock"
        /\ fakeProductDB[1] = Product(1, "Apricot", 120)

\* C20: a task that is about to issue a cache command, or is waiting for
\* its reply, holds neither the read lock nor the write lock of the store;
\* the locks are held only across the map lookup and the map store, so
\* with every task outside those the lock is free for whoever asks.
CacheOpPcs == {"get", "incr", "expire1", "expire2", "set1", "set2", "del1", "del2"}

C20_NoLockAcrossCache ==
    /\ \A p \in Procs :
          /\ req[p].pc \in CacheOpPcs => p \notin fakeDBLock.readers \cup fakeDBLock.writer
          /\ p \in fakeDBLock.readers => req[p].op = "fetch" /\ req[p].pc \in {"lookup", "runlock"}
          /\ p \in fakeDBLock.writer => req[p].op = "update" /\ req[p].pc \in {"store", "unlock"}
    /\ (\A p \in Procs : req[p].pc \notin {"lookup", "runlock", "store", "unlock"})
          => fakeDBLock = FreeLock

\* an update is between its two deletes while a fetch holds the read lock
\* of the store
C20_Witness ==
    \E p, q \in Procs :
        /\ req[p].op = "update" /\ req[p].pc = "del2"
        /\ req[q].op = "fetch" /\ req[q].pc = "lookup"
        /\ fakeDBLock = [readers |-> {q}, writer |-> {}]
====
